---- MODULE Spec2Model ----
(***************************************************************************)
(* A model of the Notion-to-Anki converter (src/notion_import.py).         *)
(*                                                                         *)
(* Text is a sequence of one-character strings.  A parsed HTML subtree is  *)
(* a record [tag, text, src, kids]: a text node has tag "#text" and its    *)
(* characters in text; an img has its src attribute value in src; any      *)
(* other element has its child nodes in kids.  The first div of a callout  *)
(* is given by the sequence of its direct children (nodes); an element     *)
(* child holds leaves (text nodes and imgs) only, so the trees are two     *)
(* levels deep below the div.                                              *)
(***************************************************************************)
EXTENDS Integers, Sequences, FiniteSets, TLC

VARIABLES
    \* parse_callout
    callout,      \* the callout figure handed to parse_callout
    assets_dir,   \* the assets directory (a path)
    fs,           \* the paths that exist on disk
    keep_tags,    \* the keep_tags argument
    cpc,          \* position inside parse_callout
    first_div,    \* the children of the callout's first div, as mutated so far
    tags,         \* the tags extract_hashtags returned
    front_text,   \* the front text parse_callout took from the first element
    card,         \* what parse_callout returned (None until it returns a card)
    \* parse_html_file
    doc,          \* the parsed document
    idx,          \* number of top-level elements of the page body processed
    subdecks,     \* the subdecks dict, a sequence of [name, cards] in insertion order
    deck_name,    \* the deck name
    css,          \* the stylesheet text
    wpc,          \* position inside parse_html_file
    \* main
    args,         \* the command line: [file, output]
    NOTION_DOWNLOAD_AVAILABLE,  \* whether download_notion_page could be imported
    mpc,          \* position inside main
    temp_dir,     \* "none" or the temporary directory main created
    temp_exists,  \* whether that directory is on disk
    exported,     \* the export calls made so far
    raised        \* "none" or the exception main ends with

cvars == <<callout, assets_dir, fs, keep_tags, cpc, first_div, tags, front_text, card>>
wvars == <<doc, idx, subdecks, deck_name, css, wpc>>
mvars == <<args, NOTION_DOWNLOAD_AVAILABLE, mpc, temp_dir, temp_exists, exported, raised>>
vars == <<callout, assets_dir, fs, keep_tags, cpc, first_div, tags, front_text, card,
          doc, idx, subdecks, deck_name, css, wpc,
          args, NOTION_DOWNLOAD_AVAILABLE, mpc, temp_dir, temp_exists, exported, raised>>

----------------------------------------------------------------------------
(* Bounds of the checked inputs. *)

\* longest text of a text node
MaxTextLen == 3
\* longest src attribute of an img, in path symbols
MaxSrcLen == 2
\* longest text of the text nodes checked at length
MaxLongLen == 6
\* most elements of the page body, counting its direct children and the direct
\* children of their indented regions
MaxNodes == 4
\* the same for the documents that vary the article, the header and the style
MaxShortNodes == 1

----------------------------------------------------------------------------
(* Characters. *)

Whitespace == {" ", "\t", "\n"}
UpperChars == {"A", "B"}
LowerChars == {"a", "b", "q", "r", "s"}
WordChars == UpperChars \cup LowerChars \cup {"_", "1", "2"}

\* str.lower on one character
LowerChar(c) ==
    CASE c = "A" -> "a"
      [] c = "B" -> "b"
      [] OTHER -> c

\* the code point of a character (the order Python compares strings by)
CodePoint(c) ==
    CASE c = "\t" -> 9
      [] c = "\n" -> 10
      [] c = " " -> 32
      [] c = "#" -> 35
      [] c = "1" -> 49
      [] c = "2" -> 50
      [] c = "A" -> 65
      [] c = "B" -> 66
      [] c = "_" -> 95
      [] c = "a" -> 97
      [] c = "b" -> 98
      [] c = "q" -> 113
      [] c = "r" -> 114
      [] c = "s" -> 115
      [] OTHER -> 200

\* str.lower
LowerStr(s) == [i \in 1..Len(s) |-> LowerChar(s[i])]

\* s < t for Python strings
RECURSIVE StrLess(_, _)
StrLess(s, t) ==
    IF s = <<>> THEN t # <<>>
    ELSE IF t = <<>> THEN FALSE
    ELSE IF Head(s) = Head(t) THEN StrLess(Tail(s), Tail(t))
    ELSE CodePoint(Head(s)) < CodePoint(Head(t))

\* sorted(S) for a set of strings
RECURSIVE SortedStrs(_)
SortedStrs(S) ==
    IF S = {} THEN <<>>
    ELSE LET m == CHOOSE x \in S : \A y \in S \ {x} : StrLess(x, y)
         IN <<m>> \o SortedStrs(S \ {m})

\* the elements of a sequence
Range(s) == {s[i] : i \in 1..Len(s)}

\* the concatenation of a sequence of sequences
RECURSIVE Concat(_)
Concat(ss) == IF ss = <<>> THEN <<>> ELSE Head(ss) \o Concat(Tail(ss))

\* str.strip
RECURSIVE LStrip(_)
LStrip(s) == IF s # <<>> /\ Head(s) \in Whitespace THEN LStrip(Tail(s)) ELSE s

RECURSIVE RStrip(_)
RStrip(s) ==
    IF s # <<>> /\ s[Len(s)] \in Whitespace THEN RStrip(SubSeq(s, 1, Len(s) - 1)) ELSE s

Strip(s) == RStrip(LStrip(s))

----------------------------------------------------------------------------
(* The regular expressions of extract_hashtags. *)

\* the last index of the run of word characters that starts at i (i - 1 if none)
RECURSIVE WordEnd(_, _)
WordEnd(s, i) ==
    IF i <= Len(s) /\ s[i] \in WordChars THEN WordEnd(s, i + 1) ELSE i - 1

\* re.findall(r"#(\w+)", s), scanning from index i
RECURSIVE FindTags(_, _)
FindTags(s, i) ==
    IF i > Len(s) THEN <<>>
    ELSE IF s[i] = "#" /\ WordEnd(s, i + 1) >= i + 1
         THEN <<SubSeq(s, i + 1, WordEnd(s, i + 1))>> \o FindTags(s, WordEnd(s, i + 1) + 1)
         ELSE FindTags(s, i + 1)

\* re.sub(r"#\w+", "", s), scanning from index i
RECURSIVE RemoveTags(_, _)
RemoveTags(s, i) ==
    IF i > Len(s) THEN <<>>
    ELSE IF s[i] = "#" /\ WordEnd(s, i + 1) >= i + 1
         THEN RemoveTags(s, WordEnd(s, i + 1) + 1)
         ELSE <<s[i]>> \o RemoveTags(s, i + 1)

\* re.sub(r"\s+", " ", s), scanning from index i
RECURSIVE CollapseWhitespace(_, _)
CollapseWhitespace(s, i) ==
    IF i > Len(s) THEN <<>>
    ELSE IF s[i] \in Whitespace
         THEN (IF i > 1 /\ s[i - 1] \in Whitespace THEN <<>> ELSE <<" ">>)
              \o CollapseWhitespace(s, i + 1)
         ELSE <<s[i]>> \o CollapseWhitespace(s, i + 1)

\* mutant: the whitespace left behind is not collapsed
CleanedText_NoCollapse(s) == Strip(RemoveTags(s, 1))

\* the text a node with hashtags is replaced by when keep_tags is false
CleanedText(s) == Strip(CollapseWhitespace(RemoveTags(s, 1), 1))

----------------------------------------------------------------------------
(* Nodes of the parsed tree. *)

TextNode(s) == [tag |-> "#text", text |-> s, src |-> <<>>, kids |-> <<>>]
Img(s) == [tag |-> "img", text |-> <<>>, src |-> s, kids |-> <<>>]
Elem(t, ks) == [tag |-> t, text |-> <<>>, src |-> <<>>, kids |-> ks]

\* element names whose text extract_hashtags skips
NonContentTags == {"script", "style"}

\* the text nodes of the div in document order, each with its parent's name
\* (element.find_all(string=True))
TextNodesOf(nodes) ==
    Concat([i \in 1..Len(nodes) |->
        IF nodes[i].tag = "#text" THEN <<[text |-> nodes[i].text, parent |-> "div"]>>
        ELSE LET ks == nodes[i].kids
                 txt == SelectSeq(ks, LAMBDA k : k.tag = "#text")
             IN [j \in 1..Len(txt) |-> [text |-> txt[j].text, parent |-> nodes[i].tag]]])

\* the tags one text node adds to the list
NodeTags(s, parent) ==
    IF parent \in NonContentTags THEN <<>>
    ELSE LET found == FindTags(s, 1)
         IN [i \in 1..Len(found) |-> LowerStr(found[i])]

\* mutant: the hashtags are removed whatever keep_tags says
NodeText_AlwaysClean(s, parent, keep) ==
    IF parent \in NonContentTags THEN s
    ELSE IF FindTags(s, 1) # <<>> THEN CleanedText(s)
    ELSE s

\* the text of one text node after the loop body of extract_hashtags
NodeText(s, parent, keep) ==
    IF parent \in NonContentTags THEN s
    ELSE IF ~keep /\ FindTags(s, 1) # <<>> THEN CleanedText(s)
    ELSE s

\* extract_hashtags(first_div, keep): the mutated children and the tag list
extract_hashtags(nodes, keep) ==
    LET tn == TextNodesOf(nodes)
        newLeaf(k, parent) ==
            IF k.tag = "#text" THEN [k EXCEPT !.text = NodeText(k.text, parent, keep)] ELSE k
    IN [nodes |-> [i \in 1..Len(nodes) |->
                      IF nodes[i].tag = "#text" THEN newLeaf(nodes[i], "div")
                      ELSE [nodes[i] EXCEPT !.kids =
                               [j \in 1..Len(nodes[i].kids) |->
                                   newLeaf(nodes[i].kids[j], nodes[i].tag)]]],
        tags |-> Concat([i \in 1..Len(tn) |-> NodeTags(tn[i].text, tn[i].parent)])]

----------------------------------------------------------------------------
(* process_images. *)

\* a path symbol is one character, or one percent escape taken as a unit;
\* urllib.parse.unquote replaces each escape by the character it encodes
UnquoteSymbol(c) ==
    CASE c = "%2F" -> "/"
      [] c = "%61" -> "a"
      [] OTHER -> c

Unquote(s) == [i \in 1..Len(s) |-> UnquoteSymbol(s[i])]

\* os.path.basename: what follows the last "/"
RECURSIVE Basename(_)
Basename(p) ==
    IF \E i \in 1..Len(p) : p[i] = "/"
    THEN Basename(Tail(p))
    ELSE p

\* os.path.join(a, b) for a relative b
PathJoin(a, b) ==
    IF a = <<>> THEN b
    ELSE IF a[Len(a)] = "/" THEN a \o b
    ELSE a \o <<"/">> \o b

\* os.path.exists
PathExists(p, disk) == p \in disk

\* mutant: the src is not decoded before its last segment is taken
ImageFilename_NoDecode(src) == Basename(src)

\* the file name process_images looks for
ImageFilename(src) == Basename(Unquote(src))

\* whether process_images rewrites an img with this src
ImageFound(src, dir, disk) ==
    src # <<>> /\ PathExists(PathJoin(dir, ImageFilename(src)), disk)

\* mutant: the src is rewritten whether or not the file is there
ProcessImg_Always(k, dir, disk) ==
    IF k.tag = "img" /\ k.src # <<>>
    THEN [k EXCEPT !.src = ImageFilename(k.src)]
    ELSE k

\* one img after the loop body of process_images
ProcessImg(k, dir, disk) ==
    IF k.tag = "img" /\ ImageFound(k.src, dir, disk)
    THEN [k EXCEPT !.src = ImageFilename(k.src)]
    ELSE k

\* the imgs of the div in document order (element.find_all("img"))
ImgsOf(nodes) ==
    Concat([i \in 1..Len(nodes) |->
        IF nodes[i].tag = "img" THEN <<nodes[i]>>
        ELSE SelectSeq(nodes[i].kids, LAMBDA k : k.tag = "img")])

\* process_images(first_div, assets_dir): the mutated children and the media list
process_images(nodes, dir, disk) ==
    LET imgs == ImgsOf(nodes)
        found == SelectSeq(imgs, LAMBDA k : ImageFound(k.src, dir, disk))
    IN [nodes |-> [i \in 1..Len(nodes) |->
                      IF nodes[i].tag = "img" THEN ProcessImg(nodes[i], dir, disk)
                      ELSE [nodes[i] EXCEPT !.kids =
                               [j \in 1..Len(nodes[i].kids) |->
                                   ProcessImg(nodes[i].kids[j], dir, disk)]]],
        media_files |-> [i \in 1..Len(found) |->
                            PathJoin(dir, ImageFilename(found[i].src))]]

----------------------------------------------------------------------------
(* str(first_div): markup as a sequence of pieces [k, v]: an opening or    *)
(* closing tag (v its name), an img (v its src value), or a run of text    *)
(* (v its characters).  Adjacent text nodes run together in the string.    *)

Piece(k, v) == [k |-> k, v |-> v]

LeafMarkup(n) ==
    IF n.tag = "#text" THEN (IF n.text = <<>> THEN <<>> ELSE <<Piece("text", n.text)>>)
    ELSE <<Piece("img", n.src)>>

NodeMarkup(n) ==
    IF n.tag \in {"#text", "img"} THEN LeafMarkup(n)
    ELSE <<Piece("open", <<n.tag>>)>>
         \o Concat([j \in 1..Len(n.kids) |-> LeafMarkup(n.kids[j])])
         \o <<Piece("close", <<n.tag>>)>>

\* join the text pieces that touch
RECURSIVE MergeText(_)
MergeText(ps) ==
    IF Len(ps) < 2 THEN ps
    ELSE IF ps[1].k = "text" /\ ps[2].k = "text"
         THEN MergeText(<<Piece("text", ps[1].v \o ps[2].v)>> \o Tail(Tail(ps)))
         ELSE <<ps[1]>> \o MergeText(Tail(ps))

\* str(first_div)
Serialize(nodes) ==
    MergeText(<<Piece("open", <<"div">>)>>
              \o Concat([i \in 1..Len(nodes) |-> NodeMarkup(nodes[i])])
              \o <<Piece("close", <<"div">>)>>)

\* process_media_in_html(first_div, assets_dir)
process_media_in_html(nodes, dir, disk) ==
    LET r == process_images(nodes, dir, disk)
    IN [html |-> Serialize(r.nodes), media_files |-> r.media_files]

----------------------------------------------------------------------------
(* parse_callout. *)

\* NotionCard, and the None parse_callout returns for a callout it skips
NotionCard(front, back, tgs, media) ==
    [ok |-> TRUE, front |-> front, back |-> back, tags |-> tgs, media_files |-> media]

None == [ok |-> FALSE, front |-> <<>>, back |-> <<>>, tags |-> <<>>, media_files |-> <<>>]

\* a callout figure: whether it has the callout class, whether a div is inside
\* it at any depth (callout.find("div")), whether the first div found is a
\* child of the figure, and the children of that div
Figure(cls, hasDiv, nodes) ==
    [tag |-> "figure", callout |-> cls, div |-> hasDiv, direct |-> hasDiv, nodes |-> nodes]

\* a figure whose first div lies inside another element of the figure
NestedDivFigure(cls, nodes) == [Figure(cls, TRUE, nodes) EXCEPT !.direct = FALSE]

\* the index of the first child of the div that is an element (0 if none)
FirstElementIndex(nodes) ==
    IF \E i \in 1..Len(nodes) : nodes[i].tag # "#text"
    THEN CHOOSE i \in 1..Len(nodes) :
            /\ nodes[i].tag # "#text"
            /\ \A j \in 1..(i - 1) : nodes[j].tag = "#text"
    ELSE 0

\* first_element.get_text(strip=True): the stripped texts of its text nodes, joined
GetTextStrip(n) ==
    LET txt == SelectSeq(n.kids, LAMBDA k : k.tag = "#text")
    IN Concat([j \in 1..Len(txt) |-> Strip(txt[j].text)])

\* first_element.extract()
RemoveAt(s, i) == SubSeq(s, 1, i - 1) \o SubSeq(s, i + 1, Len(s))

\* mutant: the tags are lowercased but neither made unique nor sorted
UniqueTags_AsFound(tgs) == [i \in 1..Len(tgs) |-> LowerStr(tgs[i])]

\* sorted(set(tag.lower() for tag in tags))
UniqueTags(tgs) == SortedStrs({LowerStr(tgs[i]) : i \in 1..Len(tgs)})

\* mutant: the front text is not looked at before the card is made
parse_callout_AnyFront(c, dir, disk, keep) ==
    IF ~c.div THEN None
    ELSE LET h == extract_hashtags(c.nodes, keep)
             fi == FirstElementIndex(h.nodes)
         IN IF fi = 0 THEN None
            ELSE LET m == process_media_in_html(RemoveAt(h.nodes, fi), dir, disk)
                 IN NotionCard(GetTextStrip(h.nodes[fi]), m.html,
                               UniqueTags(h.tags), m.media_files)

\* parse_callout(callout, assets_dir, keep_tags)
parse_callout(c, dir, disk, keep) ==
    IF ~c.div THEN None
    ELSE LET h == extract_hashtags(c.nodes, keep)
             fi == FirstElementIndex(h.nodes)
         IN IF fi = 0 THEN None
            ELSE IF GetTextStrip(h.nodes[fi]) = <<>> THEN None
            ELSE LET m == process_media_in_html(RemoveAt(h.nodes, fi), dir, disk)
                 IN NotionCard(GetTextStrip(h.nodes[fi]), m.html,
                               UniqueTags(h.tags), m.media_files)

----------------------------------------------------------------------------
(* parse_html_file. *)

DEFAULT_SUBDECK_NAME == <<"D", "e", "f", "a", "u", "l", "t">>
DEFAULT_DECK_NAME == <<"N", "o", "t", "i", "o", "n", " ", "D", "e", "c", "k">>

\* a details element: whether a summary is inside it and the summary's text,
\* whether a div of class indented is inside it and that div's direct children
Details(hasSummary, label, hasIndented, inner) ==
    [tag |-> "details", summary |-> hasSummary, label |-> label,
     indented |-> hasIndented, inner |-> inner]

\* any element that is neither a details nor a figure
Other == [tag |-> "p"]

\* the subdecks dict: its keys, membership, a new key, an append to a key's list
Keys(sd) == [i \in 1..Len(sd) |-> sd[i].name]
HasKey(sd, name) == \E i \in 1..Len(sd) : sd[i].name = name
\* mutant: the new key goes in front of the others
SetEmpty_InFront(sd, name) == <<[name |-> name, cards |-> <<>>]>> \o sd
SetEmpty(sd, name) == Append(sd, [name |-> name, cards |-> <<>>])
AppendCard(sd, name, c) ==
    [i \in 1..Len(sd) |->
        IF sd[i].name = name THEN [sd[i] EXCEPT !.cards = Append(@, c)] ELSE sd[i]]
CardsOf(sd, name) == (CHOOSE e \in Range(sd) : e.name = name).cards

\* the loop over callouts: parse each and append the cards that result
RECURSIVE AppendParsed(_, _, _, _, _, _)
AppendParsed(sd, name, callouts, dir, disk, keep) ==
    IF callouts = <<>> THEN sd
    ELSE LET c == parse_callout(Head(callouts), dir, disk, keep)
         IN AppendParsed(IF c.ok THEN AppendCard(sd, name, c) ELSE sd,
                         name, Tail(callouts), dir, disk, keep)

\* mutant: the key is made only when the section gives a card
ProcessDetails_KeyOnCard(details, sd, dir, disk, keep) ==
    IF ~details.summary \/ ~details.indented THEN sd
    ELSE LET subdeck_name == Strip(details.label)
             callouts == SelectSeq(details.inner,
                                   LAMBDA e : e.tag = "figure" /\ e.callout)
             found == AppendParsed(SetEmpty(<<>>, subdeck_name), subdeck_name,
                                   callouts, dir, disk, keep)
         IN IF found[1].cards = <<>> THEN sd
            ELSE AppendParsed(IF HasKey(sd, subdeck_name) THEN sd
                              ELSE SetEmpty(sd, subdeck_name),
                              subdeck_name, callouts, dir, disk, keep)

\* mutant: subdecks[subdeck_name] = [] also when the key is there already
ProcessDetails_Reset(details, sd, dir, disk, keep) ==
    IF ~details.summary THEN sd
    ELSE LET subdeck_name == Strip(details.label)
             sd1 == IF HasKey(sd, subdeck_name)
                    THEN [i \in 1..Len(sd) |->
                             IF sd[i].name = subdeck_name
                             THEN [sd[i] EXCEPT !.cards = <<>>] ELSE sd[i]]
                    ELSE SetEmpty(sd, subdeck_name)
         IN IF ~details.indented THEN sd1
            ELSE AppendParsed(sd1, subdeck_name,
                              SelectSeq(details.inner,
                                        LAMBDA e : e.tag = "figure" /\ e.callout),
                              dir, disk, keep)

\* _process_details_subdeck(details, subdecks, assets_dir, keep_tags)
_process_details_subdeck(details, sd, dir, disk, keep) ==
    IF ~details.summary THEN sd
    ELSE LET subdeck_name == Strip(details.label)
             sd1 == IF HasKey(sd, subdeck_name) THEN sd ELSE SetEmpty(sd, subdeck_name)
         IN IF ~details.indented THEN sd1
            ELSE AppendParsed(sd1, subdeck_name,
                              SelectSeq(details.inner,
                                        LAMBDA e : e.tag = "figure" /\ e.callout),
                              dir, disk, keep)

\* _process_standalone_callout(callout, subdecks, assets_dir, keep_tags)
_process_standalone_callout(c, sd, dir, disk, keep) ==
    LET sd1 == IF HasKey(sd, DEFAULT_SUBDECK_NAME) THEN sd
               ELSE SetEmpty(sd, DEFAULT_SUBDECK_NAME)
    IN AppendParsed(sd1, DEFAULT_SUBDECK_NAME, <<c>>, dir, disk, keep)

\* page_body.find_all(["details", "figure"], recursive=False)
TopLevelElements(d) ==
    SelectSeq(d.children, LAMBDA e : e.tag \in {"details", "figure"})

\* mutant: every top-level figure is taken for a callout
ProcessElement_AnyFigure(element, sd, dir, disk, keep) ==
    IF element.tag = "details"
    THEN _process_details_subdeck(element, sd, dir, disk, keep)
    ELSE _process_standalone_callout(element, sd, dir, disk, keep)

\* the body of the loop over the top-level elements
ProcessElement(element, sd, dir, disk, keep) ==
    IF element.tag = "details"
    THEN _process_details_subdeck(element, sd, dir, disk, keep)
    ELSE IF element.tag = "figure" /\ element.callout
    THEN _process_standalone_callout(element, sd, dir, disk, keep)
    ELSE sd

RECURSIVE ProcessElements(_, _, _, _, _)
ProcessElements(elements, sd, dir, disk, keep) ==
    IF elements = <<>> THEN sd
    ELSE ProcessElements(Tail(elements),
                         ProcessElement(Head(elements), sd, dir, disk, keep),
                         dir, disk, keep)

\* mutant: the header is looked up in the whole document, not in the article
DeckNameOf_AnyHeader(d) ==
    IF d.h1 THEN Strip(d.title) ELSE DEFAULT_DECK_NAME

\* the deck name parse_html_file has once it has looked at the article
DeckNameOf(d) ==
    IF d.article /\ d.h1 THEN Strip(d.title) ELSE DEFAULT_DECK_NAME

\* extract_css_from_html(html_path): the string of the first style element
\* ("None" for Python's None, which .string gives for a style element without
\* a single string inside)
extract_css_from_html(d) ==
    CASE d.style = "absent" -> ""
      [] d.style = "empty" -> "None"
      [] OTHER -> d.style

\* parse_html_file(html_path, assets_dir, keep_tags)
parse_html_file(d, dir, disk, keep) ==
    [deck_name |-> DeckNameOf(d),
     css |-> extract_css_from_html(d),
     subdecks |-> IF d.article /\ d.page_body
                  THEN ProcessElements(TopLevelElements(d), <<>>, dir, disk, keep)
                  ELSE <<>>]

----------------------------------------------------------------------------
(* The inputs parse_callout is checked on. *)

\* the sequences over S of length at most n
SeqsUpTo(S, n) == UNION {[1..k -> S] : k \in 0..n}

TextAlphabet == {"#", " ", "a", "B"}
Texts == SeqsUpTo(TextAlphabet, MaxTextLen)
\* the texts of the second text node
SecondTexts ==
    {<<"q">>, <<"#", "a">>, <<"#", "B">>, <<" ", " ">>, <<"#">>, <<"a", "#", "B", " ">>,
     <<" ", "#", "a", " ", " ", "a">>, <<"#", "b", " ", "#", "a">>}

\* longer texts over fewer characters, for what the regular expressions leave
\* in the middle of a text
LongTexts == SeqsUpTo({"#", " ", "a"}, MaxLongLen)

PathAlphabet == {"a", "/", "%2F", "%61"}
Srcs == SeqsUpTo(PathAlphabet, MaxSrcLen)
\* the src values of the second img
SecondSrcs == {<<>>, <<"a">>, <<"a", "a">>, <<"a", "/", "%61">>, <<"/">>}

\* the file names that may lie in the assets directory
FileNames == {<<"a">>, <<"a", "a">>}
AssetsDirs == {<<>>, <<"d">>}

\* the disk: the chosen files of the assets directory, and the directory itself
\* (main takes it from the path of the HTML file it has opened; "" is the
\* current directory, which os.path.exists("") does not find)
Disk(dir, names) ==
    {PathJoin(dir, n) : n \in names} \cup (IF dir = <<>> THEN {} ELSE {PathJoin(dir, <<>>)})

\* callouts that vary the text: a front element and one more text node, which
\* lies in the div itself (after or before the front) or in another element
TextShapes == 1..5
LongShapes == 6..7
\* t1 is the text of the first text node of the shape and t2 that of the second
TextCallout(k, t1, t2) ==
    CASE k = 1 -> Figure(TRUE, TRUE, <<Elem("p", <<TextNode(t1)>>), TextNode(t2)>>)
      [] k = 2 -> Figure(TRUE, TRUE, <<TextNode(t2), Elem("p", <<TextNode(t1)>>)>>)
      [] k = 3 -> Figure(TRUE, TRUE, <<Elem("p", <<TextNode(t1)>>), Elem("p", <<TextNode(t2)>>)>>)
      [] k = 4 -> Figure(TRUE, TRUE, <<Elem("p", <<TextNode(t1)>>), Elem("style", <<TextNode(t2)>>)>>)
      [] k = 5 -> Figure(TRUE, TRUE, <<Elem("script", <<TextNode(t1)>>), Elem("p", <<TextNode(t2)>>)>>)
      [] k = 6 -> Figure(TRUE, TRUE, <<Elem("p", <<TextNode(t1)>>), Elem("p", <<TextNode(t2)>>)>>)
      [] k = 7 -> Figure(TRUE, TRUE, <<TextNode(t1), Elem("p", <<TextNode(t2)>>)>>)

\* callouts that vary the images: in the div itself, inside an element of the
\* back, inside the front element, or as the first element
ImageShapes == 1..6
ImageCallout(k, s1, s2) ==
    LET q == TextNode(<<"q">>)
        t == Elem("p", <<TextNode(<<"r", " ", "#", "B">>)>>)
    IN CASE k = 1 -> Figure(TRUE, TRUE, <<Elem("p", <<q>>), Img(s1), t, Img(s2)>>)
         [] k = 2 -> Figure(TRUE, TRUE, <<Elem("p", <<q>>),
                                          Elem("p", <<Img(s1), TextNode(<<"s">>), Img(s2)>>)>>)
         [] k = 3 -> Figure(TRUE, TRUE, <<Elem("p", <<q, Img(s1)>>), t, Img(s2)>>)
         [] k = 4 -> Figure(TRUE, TRUE, <<Elem("p", <<TextNode(<<"#">>), Img(s1),
                                                      TextNode(<<"a", " ">>)>>), Img(s2)>>)
         [] k = 5 -> Figure(TRUE, TRUE, <<Img(s1), Elem("p", <<q>>), Img(s2)>>)
         [] k = 6 -> Figure(TRUE, TRUE, <<Elem("p", <<TextNode(<<"q", " ">>), Img(s1),
                                                      TextNode(<<" ", "r">>)>>),
                                          TextNode(<<" ">>), Img(s2)>>)

\* callouts that vary the structure: no div, an empty div, a div with text
\* only, a first element without text, a first element with blank text, and a
\* well-formed callout whose front text is t, also with its div one level
\* further down
CalloutShapes == {"nodiv", "empty", "textonly", "notext", "blank", "ok", "nested"}
ShapeCallout(shape, t) ==
    CASE shape = "nodiv" -> Figure(TRUE, FALSE, <<>>)
      [] shape = "empty" -> Figure(TRUE, TRUE, <<>>)
      [] shape = "textonly" -> Figure(TRUE, TRUE, <<TextNode(t)>>)
      [] shape = "notext" -> Figure(TRUE, TRUE, <<Elem("p", <<>>), Elem("p", <<TextNode(t)>>)>>)
      [] shape = "blank" -> Figure(TRUE, TRUE, <<Elem("p", <<TextNode(<<" ">>)>>),
                                                 Elem("p", <<TextNode(t)>>)>>)
      [] shape = "ok" -> Figure(TRUE, TRUE, <<Elem("p", <<TextNode(t)>>),
                                              Elem("p", <<TextNode(<<"r">>)>>)>>)
      [] shape = "nested" -> NestedDivFigure(TRUE, <<Elem("p", <<TextNode(t)>>),
                                                     Elem("p", <<TextNode(<<"r">>)>>)>>)

\* the values the variables of parse_html_file and main have while they do not run
WalkerIdle ==
    /\ doc = [article |-> FALSE, h1 |-> FALSE, title |-> <<>>, page_body |-> FALSE,
              style |-> "absent", children |-> <<>>]
    /\ idx = 0
    /\ subdecks = <<>>
    /\ deck_name = <<>>
    /\ css = ""
    /\ wpc = "idle"

MainIdle ==
    /\ args = [file |-> "html", output |-> "csv"]
    /\ NOTION_DOWNLOAD_AVAILABLE = TRUE
    /\ mpc = "idle"
    /\ temp_dir = "none"
    /\ temp_exists = FALSE
    /\ exported = <<>>
    /\ raised = "none"

\* the state before parse_callout runs
CalloutStart ==
    /\ cpc = "start"
    /\ first_div = <<>>
    /\ tags = <<>>
    /\ front_text = <<>>
    /\ card = None
    /\ WalkerIdle
    /\ MainIdle

CalloutInit ==
    /\ \/ /\ \/ \E k \in TextShapes, t1 \in Texts, t2 \in SecondTexts :
                   \/ callout = TextCallout(k, t1, t2)
                   \/ callout = TextCallout(k, t2, t1)
             \/ \E k \in LongShapes, t1 \in LongTexts :
                   callout = TextCallout(k, t1, <<"q">>)
          /\ assets_dir = <<"d">>
          /\ fs = Disk(assets_dir, {})
       \/ /\ \E shape \in CalloutShapes : callout = ShapeCallout(shape, <<"q">>)
          /\ assets_dir = <<"d">>
          /\ fs = Disk(assets_dir, {})
       \/ /\ \E k \in ImageShapes, s1 \in Srcs, s2 \in SecondSrcs :
                \/ callout = ImageCallout(k, s1, s2)
                \/ callout = ImageCallout(k, s2, s1)
          /\ assets_dir \in AssetsDirs
          /\ \E names \in SUBSET FileNames : fs = Disk(assets_dir, names)
    /\ keep_tags \in BOOLEAN
    /\ CalloutStart

----------------------------------------------------------------------------
(* parse_callout, step by step. *)

\* first_div = callout.find("div"); return None without one
FindFirstDiv ==
    /\ cpc = "start"
    /\ IF callout.div
       THEN cpc' = "hashtags" /\ first_div' = callout.nodes
       ELSE cpc' = "done" /\ first_div' = first_div
    /\ UNCHANGED <<callout, assets_dir, fs, keep_tags, tags, front_text, card>>
    /\ UNCHANGED <<wvars, mvars>>

\* first_div, tags = extract_hashtags(first_div, keep_tags=keep_tags)
CallExtractHashtags ==
    /\ cpc = "hashtags"
    /\ first_div' = extract_hashtags(first_div, keep_tags).nodes
    /\ tags' = extract_hashtags(first_div, keep_tags).tags
    /\ cpc' = "front"
    /\ UNCHANGED <<callout, assets_dir, fs, keep_tags, front_text, card>>
    /\ UNCHANGED <<wvars, mvars>>

\* mutant: the front element is not taken out of the div
TakeFront_NotDetached ==
    /\ cpc = "front"
    /\ LET fi == FirstElementIndex(first_div)
       IN IF fi = 0 \/ GetTextStrip(first_div[IF fi = 0 THEN 1 ELSE fi]) = <<>>
          THEN cpc' = "done" /\ UNCHANGED <<first_div, front_text>>
          ELSE /\ cpc' = "media"
               /\ front_text' = GetTextStrip(first_div[fi])
               /\ first_div' = first_div
    /\ UNCHANGED <<callout, assets_dir, fs, keep_tags, tags, card>>
    /\ UNCHANGED <<wvars, mvars>>

\* the first element, its text, and its removal from the div; return None
\* without an element or without text in it
TakeFront ==
    /\ cpc = "front"
    /\ LET fi == FirstElementIndex(first_div)
       IN IF fi = 0 \/ GetTextStrip(first_div[IF fi = 0 THEN 1 ELSE fi]) = <<>>
          THEN cpc' = "done" /\ UNCHANGED <<first_div, front_text>>
          ELSE /\ cpc' = "media"
               /\ front_text' = GetTextStrip(first_div[fi])
               /\ first_div' = RemoveAt(first_div, fi)
    /\ UNCHANGED <<callout, assets_dir, fs, keep_tags, tags, card>>
    /\ UNCHANGED <<wvars, mvars>>

\* process_media_in_html, the tag list and the card
MakeCard ==
    /\ cpc = "media"
    /\ first_div' = process_images(first_div, assets_dir, fs).nodes
    /\ card' = NotionCard(front_text,
                          process_media_in_html(first_div, assets_dir, fs).html,
                          UniqueTags(tags),
                          process_media_in_html(first_div, assets_dir, fs).media_files)
    /\ cpc' = "done"
    /\ UNCHANGED <<callout, assets_dir, fs, keep_tags, tags, front_text>>
    /\ UNCHANGED <<wvars, mvars>>

CalloutNext == FindFirstDiv \/ CallExtractHashtags \/ TakeFront \/ MakeCard

SpecCallout == CalloutInit /\ [][CalloutNext]_vars

----------------------------------------------------------------------------
(* The documents parse_html_file is checked on.  A child of the page body   *)
(* is described by <<kind, label, inner>>; the front text of a callout is   *)
(* "q" followed by the position of its top-level child and its own position *)
(* inside the indented region (0 at top level), so that every card names    *)
(* the callout it came from.                                                *)

\* the summaries: none, or one with this text
Labels == {"none", "A", " A", "Default"}
LabelText(l) ==
    CASE l = "A" -> <<"A">>
      [] l = " A" -> <<" ", "A">>
      [] l = "Default" -> DEFAULT_SUBDECK_NAME
      [] OTHER -> <<>>

\* the direct children of an indented region: a well-formed callout, a callout
\* without a div, a figure that is no callout
InnerKinds == {"ok", "nodiv", "plain"}
\* the figures at top level: a well-formed callout, a callout without a div, a
\* figure that is no callout
FigureKinds == {"ok", "nodiv", "plain"}

\* the direct children of the page body: another element, a figure, a details
\* with a summary and no indented region, a details with an indented region
\* (also without a summary: the region is then never looked at)
ChildCodes ==
    {<<"other", "none">>}
    \cup {<<"figure", k>> : k \in FigureKinds}
    \cup {<<"details", "A">>}
    \cup {<<"indented", l>> : l \in Labels}

FrontOf(i, j) == <<"q", ToString(i), ToString(j)>>

MakeFigure(kind, i, j) ==
    IF kind = "plain"
    THEN Figure(FALSE, TRUE, <<Elem("p", <<TextNode(FrontOf(i, j))>>)>>)
    ELSE ShapeCallout(kind, FrontOf(i, j))

\* child i of the page body, with these kinds of children in its indented region
MakeChild(code, i, inner) ==
    CASE code[1] = "other" -> Other
      [] code[1] = "figure" -> MakeFigure(code[2], i, 0)
      [] code[1] = "details" -> Details(code[2] # "none", LabelText(code[2]), FALSE, <<>>)
      [] code[1] = "indented" ->
            Details(code[2] # "none", LabelText(code[2]), TRUE,
                    [j \in 1..Len(inner) |->
                        IF inner[j] = "other" THEN Other ELSE MakeFigure(inner[j], i, j)])

RECURSIVE Sum(_)
Sum(ns) == IF ns = <<>> THEN 0 ELSE Head(ns) + Sum(Tail(ns))

\* the document whose page body has the children codes, child i with sizes[i]
\* elements in its indented region, their kinds taken from inner in turn
MakeDoc(article, h1, title, body, style, codes, sizes, inner) ==
    [article |-> article, h1 |-> h1, title |-> title, page_body |-> body, style |-> style,
     children |-> [i \in 1..Len(codes) |->
                      MakeChild(codes[i], i,
                                SubSeq(inner, Sum(SubSeq(sizes, 1, i - 1)) + 1,
                                       Sum(SubSeq(sizes, 1, i))))]]

\* the page bodies with at most n elements, those inside indented regions included
BodyChoice(n, article, h1, title, body, style) ==
    \E len \in 0..n :
    \E codes \in [1..len -> ChildCodes] :
    \E sizes \in [1..len -> 0..(n - len)] :
        /\ \A i \in 1..len : sizes[i] > 0 => codes[i][1] = "indented"
        /\ Sum(sizes) + len <= n
        /\ \E inner \in [1..Sum(sizes) -> InnerKinds] :
              doc = MakeDoc(article, h1, title, body, style, codes, sizes, inner)

Titles == {<<"T">>, <<" ", "T", " ">>, <<>>}
Styles == {"absent", "empty", "css"}

\* the state before parse_callout is called on its own
CalloutIdle ==
    /\ callout = Figure(TRUE, FALSE, <<>>)
    /\ cpc = "idle"
    /\ first_div = <<>>
    /\ tags = <<>>
    /\ front_text = <<>>
    /\ card = None

\* a callout of every shape between two well-formed callouts, in the page
\* body and in the indented region of a details
ShapeBetween(x) ==
    \/ doc = MakeDoc(TRUE, TRUE, <<"T">>, TRUE, "css",
                     <<<<"figure", "ok">>, <<"figure", x>>, <<"figure", "ok">>>>,
                     <<0, 0, 0>>, <<>>)
    \/ doc = MakeDoc(TRUE, TRUE, <<"T">>, TRUE, "css",
                     <<<<"indented", "A">>, <<"figure", "ok">>>>,
                     <<3, 0>>, <<"ok", x, "ok">>)

\* whole documents with a title, short documents that vary the article, the
\* header, the page body and the style element, and documents that vary the
\* shape of one callout
DocChoice ==
    \/ /\ \E x \in CalloutShapes : ShapeBetween(x)
       /\ keep_tags \in BOOLEAN
    \/ /\ BodyChoice(MaxNodes, TRUE, TRUE, <<"T">>, TRUE, "css")
       /\ keep_tags = TRUE
    \/ \E article \in BOOLEAN, h1 \in BOOLEAN, body \in BOOLEAN, title \in Titles,
          style \in Styles :
          /\ ~(article /\ h1 /\ body /\ title = <<"T">> /\ style = "css")
          /\ BodyChoice(MaxShortNodes, article, h1, title, body, style)
          /\ keep_tags \in BOOLEAN

WalkerInit ==
    /\ DocChoice
    /\ assets_dir = <<"d">>
    /\ fs = Disk(assets_dir, {})
    /\ idx = 0
    /\ subdecks = <<>>
    /\ deck_name = <<>>
    /\ css = ""
    /\ wpc = "start"
    /\ CalloutIdle
    /\ MainIdle

----------------------------------------------------------------------------
(* parse_html_file, step by step. *)

\* subdecks = {}, deck_name = "Notion Deck", the stylesheet, and the article
EnterDocument ==
    /\ wpc = "start"
    /\ subdecks' = <<>>
    /\ css' = extract_css_from_html(doc)
    /\ deck_name' = DeckNameOf(doc)
    /\ wpc' = IF doc.article /\ doc.page_body THEN "loop" ELSE "done"
    /\ UNCHANGED <<doc, idx, cvars, mvars>>

\* one turn of the loop over the top-level elements
ProcessNext ==
    /\ wpc = "loop"
    /\ idx < Len(TopLevelElements(doc))
    /\ subdecks' = ProcessElement(TopLevelElements(doc)[idx + 1], subdecks,
                                  assets_dir, fs, keep_tags)
    /\ idx' = idx + 1
    /\ UNCHANGED <<doc, deck_name, css, wpc, cvars, mvars>>

\* return deck_name, subdecks, css
ReturnParsed ==
    /\ wpc = "loop"
    /\ idx = Len(TopLevelElements(doc))
    /\ wpc' = "done"
    /\ UNCHANGED <<doc, idx, subdecks, deck_name, css, cvars, mvars>>

WalkerNext == EnterDocument \/ ProcessNext \/ ReturnParsed

SpecWalker == WalkerInit /\ [][WalkerNext]_vars

----------------------------------------------------------------------------
(* main. *)

\* mutant: the subdecks are counted, not their cards
TotalCards_Subdecks(sd) == Len(sd)

\* sum(len(cards) for cards in subdecks.values())
TotalCards(sd) == Sum([i \in 1..Len(sd) |-> Len(sd[i].cards)])

\* what the input file argument is: a URL, a path ending in .zip, another path
FileKinds == {"url", "zip", "html"}
\* what the output argument ends with
OutputKinds == {"csv", "apkg", "other"}

MainInit ==
    /\ \E style \in Styles : BodyChoice(MaxShortNodes, TRUE, TRUE, <<"T">>, TRUE, style)
    /\ keep_tags \in BOOLEAN
    /\ assets_dir = <<"d">>
    /\ fs = Disk(assets_dir, {})
    /\ idx = 0
    /\ subdecks = <<>>
    /\ deck_name = <<>>
    /\ css = ""
    /\ wpc = "idle"
    /\ CalloutIdle
    /\ args \in [file : FileKinds, output : OutputKinds]
    /\ NOTION_DOWNLOAD_AVAILABLE \in BOOLEAN
    /\ mpc = "start"
    /\ temp_dir = "none"
    /\ temp_exists = FALSE
    /\ exported = <<>>
    /\ raised = "none"

munchanged == <<doc, idx, wpc, cvars, args, NOTION_DOWNLOAD_AVAILABLE>>

\* the input is a URL and download_notion_page is missing: SystemExit
UrlUnavailable ==
    /\ mpc = "start"
    /\ args.file = "url"
    /\ ~NOTION_DOWNLOAD_AVAILABLE
    /\ raised' = "SystemExit"
    /\ mpc' = "finally"
    /\ UNCHANGED <<munchanged, subdecks, deck_name, css, temp_dir, temp_exists, exported>>

\* temp_dir = tempfile.mkdtemp() for a URL or a ZIP file
MakeTempDir ==
    /\ mpc = "start"
    /\ \/ args.file = "url" /\ NOTION_DOWNLOAD_AVAILABLE
       \/ args.file = "zip"
    /\ temp_dir' = "tmp"
    /\ temp_exists' = TRUE
    /\ mpc' = "acquire"
    /\ UNCHANGED <<munchanged, subdecks, deck_name, css, exported, raised>>

\* a direct HTML file: nothing to acquire
DirectHtml ==
    /\ mpc = "start"
    /\ args.file = "html"
    /\ mpc' = "parse"
    /\ UNCHANGED <<munchanged, subdecks, deck_name, css, temp_dir, temp_exists, exported,
                   raised>>

\* download_notion_page or extract_zip_file returns the HTML file
AcquireOk ==
    /\ mpc = "acquire"
    /\ mpc' = "parse"
    /\ UNCHANGED <<munchanged, subdecks, deck_name, css, temp_dir, temp_exists, exported,
                   raised>>

\* download_notion_page or extract_zip_file raises: except prints and re-raises
AcquireFails ==
    /\ mpc = "acquire"
    /\ raised' = "Exception"
    /\ mpc' = "finally"
    /\ UNCHANGED <<munchanged, subdecks, deck_name, css, temp_dir, temp_exists, exported>>

\* deck_name, subdecks, css = parse_html_file(html_file, assets_dir, keep_tags)
ParseInput ==
    /\ mpc = "parse"
    /\ LET r == parse_html_file(doc, assets_dir, fs, keep_tags)
       IN /\ deck_name' = r.deck_name
          /\ subdecks' = r.subdecks
          /\ css' = r.css
    /\ mpc' = "validate"
    /\ UNCHANGED <<munchanged, temp_dir, temp_exists, exported, raised>>

\* parse_html_file raises (the file cannot be read): except prints and re-raises
ParseFails ==
    /\ mpc = "parse"
    /\ raised' = "Exception"
    /\ mpc' = "finally"
    /\ UNCHANGED <<munchanged, subdecks, deck_name, css, temp_dir, temp_exists, exported>>

\* total_cards == 0: SystemExit
NoCards ==
    /\ mpc = "validate"
    /\ TotalCards(subdecks) = 0
    /\ raised' = "SystemExit"
    /\ mpc' = "finally"
    /\ UNCHANGED <<munchanged, subdecks, deck_name, css, temp_dir, temp_exists, exported>>

\* what writing the output file does: it is written, or open() raises (the
\* path cannot be written) and except prints and re-raises
WriteOutcomes == {"none", "Exception"}

\* export_csv(deck_name, subdecks, args.output)
ExportCsv ==
    /\ mpc = "validate"
    /\ TotalCards(subdecks) # 0
    /\ args.output = "csv"
    /\ exported' = Append(exported, "export_csv")
    /\ raised' \in WriteOutcomes
    /\ mpc' = "finally"
    /\ UNCHANGED <<munchanged, subdecks, deck_name, css, temp_dir, temp_exists>>

\* export_apkg(deck_name, subdecks, args.output, css=css); css + "\n" raises
\* TypeError when css is None, and pkg.write_to_file raises when the path
\* cannot be written
ExportApkg ==
    /\ mpc = "validate"
    /\ TotalCards(subdecks) # 0
    /\ args.output = "apkg"
    /\ exported' = Append(exported, "export_apkg")
    /\ raised' \in (IF css = "None" THEN {"Exception"} ELSE WriteOutcomes)
    /\ mpc' = "finally"
    /\ UNCHANGED <<munchanged, subdecks, deck_name, css, temp_dir, temp_exists>>

\* the output ends with neither .csv nor .apkg: SystemExit
BadOutput ==
    /\ mpc = "validate"
    /\ TotalCards(subdecks) # 0
    /\ args.output = "other"
    /\ raised' = "SystemExit"
    /\ mpc' = "finally"
    /\ UNCHANGED <<munchanged, subdecks, deck_name, css, temp_dir, temp_exists, exported>>

\* mutant: the directory is removed at the end of the try block, not in finally
Cleanup_OnSuccess ==
    /\ mpc = "finally"
    /\ temp_exists' = IF temp_dir # "none" /\ temp_exists /\ raised = "none"
                      THEN FALSE ELSE temp_exists
    /\ mpc' = "done"
    /\ UNCHANGED <<munchanged, subdecks, deck_name, css, temp_dir, exported, raised>>

\* finally: remove the temporary directory if one was made and is there
Cleanup ==
    /\ mpc = "finally"
    /\ temp_exists' = IF temp_dir # "none" /\ temp_exists THEN FALSE ELSE temp_exists
    /\ mpc' = "done"
    /\ UNCHANGED <<munchanged, subdecks, deck_name, css, temp_dir, exported, raised>>

MainNext ==
    \/ UrlUnavailable \/ MakeTempDir \/ DirectHtml \/ AcquireOk \/ AcquireFails
    \/ ParseInput \/ ParseFails \/ NoCards \/ ExportCsv \/ ExportApkg \/ BadOutput \/ Cleanup

SpecMain == MainInit /\ [][MainNext]_vars

----------------------------------------------------------------------------
(* What the claims about parse_html_file speak of. *)

\* the position <<i, j>> of the callout a card came from, read off its front
DigitOf(ch) == CHOOSE n \in 0..9 : ToString(n) = ch
PosOf(c) == <<DigitOf(c.front[2]), DigitOf(c.front[3])>>
PosBefore(a, b) == a[1] < b[1] \/ (a[1] = b[1] /\ a[2] < b[2])

\* child i of the page body is one the loop has processed
IsElement(i) == doc.children[i].tag \in {"details", "figure"}
Processed(i) ==
    /\ wpc \in {"loop", "done"}
    /\ IsElement(i)
    /\ Cardinality({m \in 1..i : IsElement(m)}) <= idx

IsSection(i) == doc.children[i].tag = "details" /\ doc.children[i].summary
IsTopCallout(i) == doc.children[i].tag = "figure" /\ doc.children[i].callout

\* child i introduces the subdeck key name
Introduces(i, name) ==
    \/ IsSection(i) /\ Strip(doc.children[i].label) = name
    \/ IsTopCallout(i) /\ name = DEFAULT_SUBDECK_NAME

\* the cards of the callouts of one indented region, in order
SectionCards(i) ==
    IF IsSection(i) /\ doc.children[i].indented
    THEN LET inner == doc.children[i].inner
             parsed == [j \in 1..Len(inner) |->
                          IF inner[j].tag = "figure" /\ inner[j].callout
                          THEN parse_callout(inner[j], assets_dir, fs, keep_tags)
                          ELSE None]
         IN SelectSeq(parsed, LAMBDA c : c.ok)
    ELSE <<>>

\* the card of a top-level callout, if it yields one
TopCard(i) ==
    IF IsTopCallout(i)
    THEN LET c == parse_callout(doc.children[i], assets_dir, fs, keep_tags)
         IN IF c.ok THEN <<c>> ELSE <<>>
    ELSE <<>>

\* the cards the processed children place under name, in document order
CardsUnder(name) ==
    Concat([i \in 1..Len(doc.children) |->
        IF ~Processed(i) THEN <<>>
        ELSE IF IsSection(i) /\ Strip(doc.children[i].label) = name THEN SectionCards(i)
        ELSE IF IsTopCallout(i) /\ name = DEFAULT_SUBDECK_NAME THEN TopCard(i)
        ELSE <<>>])

\* the names a subdeck of these documents can have
SubdeckNames == {Strip(LabelText(l)) : l \in Labels} \cup {DEFAULT_SUBDECK_NAME}

IsPrefix(a, b) == Len(a) <= Len(b) /\ SubSeq(b, 1, Len(a)) = a

\* C1: the keys come in the order their introducing children first appear
KeysInSourceOrder ==
    \A p \in 1..Len(subdecks) : \A q \in 1..Len(subdecks) :
        p < q =>
            \E i \in 1..Len(doc.children) :
                /\ Processed(i) /\ Introduces(i, subdecks[p].name)
                /\ \A m \in 1..Len(doc.children) :
                      Processed(m) /\ Introduces(m, subdecks[q].name) => i < m

\* C1: the cards of a subdeck come in the document order of their callouts
CardsInSourceOrder ==
    \A p \in 1..Len(subdecks) :
        \A a \in 1..Len(subdecks[p].cards) : \A b \in 1..Len(subdecks[p].cards) :
            a < b => PosBefore(PosOf(subdecks[p].cards[a]), PosOf(subdecks[p].cards[b]))

\* C1: a step keeps the keys and the cards it finds, in place
KeepsCollected ==
    /\ IsPrefix(Keys(subdecks), Keys(subdecks'))
    /\ \A p \in 1..Len(subdecks) : IsPrefix(subdecks[p].cards, subdecks'[p].cards)

(* C1: the result of parse_html_file keeps source order: subdeck keys are in
   the order in which their introducing elements first appear among the
   children of the page body, the cards of each subdeck are in the document
   order of their callouts, and processing a later child neither removes nor
   reorders a key or card already collected. *)
C1_SourceOrder ==
    /\ [](KeysInSourceOrder /\ CardsInSourceOrder)
    /\ [][KeepsCollected]_vars

\* C1 witness: the walk is over with two subdecks, the first introduced by a
\* later kind of element than "Default" sorts, and a subdeck with cards from
\* two different children of the page body
C1_Witness ==
    /\ wpc = "done"
    /\ Len(subdecks) >= 2
    /\ subdecks[2].name = DEFAULT_SUBDECK_NAME
    /\ \E p \in 1..Len(subdecks) :
          /\ Len(subdecks[p].cards) >= 2
          /\ PosOf(subdecks[p].cards[1])[1] # PosOf(subdecks[p].cards[2])[1]

(* C2: when two or more top-level details have the same label, the subdecks
   map holds exactly one key for that label and the cards of all those
   sections are in that one list, in document order. *)
C2_RepeatedLabel ==
    \A name \in SubdeckNames :
        LET secs == {i \in 1..Len(doc.children) :
                        Processed(i) /\ IsSection(i) /\ Strip(doc.children[i].label) = name}
        IN Cardinality(secs) >= 2 =>
              /\ Cardinality({p \in 1..Len(subdecks) : subdecks[p].name = name}) = 1
              /\ SelectSeq(CardsOf(subdecks, name), LAMBDA c : PosOf(c)[2] > 0)
                   = Concat([i \in 1..Len(doc.children) |->
                                IF i \in secs THEN SectionCards(i) ELSE <<>>])

\* C2 witness: two sections with one label, each of which gave a card
C2_Witness ==
    /\ wpc = "done"
    /\ \E i \in 1..Len(doc.children) : \E m \in 1..Len(doc.children) :
          /\ i < m
          /\ IsSection(i) /\ IsSection(m)
          /\ Strip(doc.children[i].label) = Strip(doc.children[m].label)
          /\ doc.children[i].label # doc.children[m].label
          /\ SectionCards(i) # <<>> /\ SectionCards(m) # <<>>
          /\ Len(CardsOf(subdecks, Strip(doc.children[i].label))) >= 2

(* C3: a callout figure directly in the page body puts its card under
   "Default", which exists from the first such figure on; a callout directly
   in the indented region of a details puts its card under that section's
   label; no other child adds a card or a subdeck. *)
C3_Classification ==
    /\ \A name \in SubdeckNames :
          IF HasKey(subdecks, name)
          THEN /\ CardsOf(subdecks, name) = CardsUnder(name)
               /\ \E i \in 1..Len(doc.children) : Processed(i) /\ Introduces(i, name)
          ELSE /\ CardsUnder(name) = <<>>
               /\ ~\E i \in 1..Len(doc.children) : Processed(i) /\ Introduces(i, name)
    /\ \A p \in 1..Len(subdecks) : subdecks[p].name \in SubdeckNames

\* C3 witness: a document with a figure that is no callout, a top-level callout
\* whose card is under "Default" and a section whose callout's card is under
\* its label
C3_Witness ==
    /\ wpc = "done"
    /\ \E i \in 1..Len(doc.children) :
          doc.children[i].tag = "figure" /\ ~doc.children[i].callout
    /\ HasKey(subdecks, DEFAULT_SUBDECK_NAME)
    /\ \E c \in Range(CardsOf(subdecks, DEFAULT_SUBDECK_NAME)) : PosOf(c)[2] = 0
    /\ HasKey(subdecks, <<"A">>)
    /\ \E c \in Range(CardsOf(subdecks, <<"A">>)) : PosOf(c)[2] > 0

(* C10 as stated: without an article, or with an article but no page body,
   parse_html_file returns no subdecks and the default deck name. *)
C10_Original ==
    (wpc = "done" /\ ~(doc.article /\ doc.page_body)) =>
        subdecks = <<>> /\ deck_name = DEFAULT_DECK_NAME

(* C10 amended: without an article, parse_html_file returns no subdecks and
   the default deck name; with an article but no page body it returns no
   subdecks and the deck name taken from the article's header h1 (its
   stripped text), the default name only if the article has no such h1. *)
C10_EmptyResult ==
    (wpc = "done" /\ ~(doc.article /\ doc.page_body)) =>
        /\ subdecks = <<>>
        /\ ~doc.article => deck_name = DEFAULT_DECK_NAME
        /\ (doc.article /\ ~doc.h1) => deck_name = DEFAULT_DECK_NAME
        /\ (doc.article /\ doc.h1) =>
              \E a \in 0..Len(doc.title) : \E b \in 0..Len(doc.title) :
                  /\ deck_name = SubSeq(doc.title, a + 1, Len(doc.title) - b)
                  /\ \A k \in 1..a : doc.title[k] \in Whitespace
                  /\ \A k \in (Len(doc.title) - b + 1)..Len(doc.title) :
                        doc.title[k] \in Whitespace
                  /\ (deck_name # <<>> =>
                        deck_name[1] \notin Whitespace
                        /\ deck_name[Len(deck_name)] \notin Whitespace)

\* C10 witness: an article with a title and children in reach but no page
\* body: the deck name is the title
C10_Witness ==
    /\ wpc = "done"
    /\ doc.article /\ ~doc.page_body /\ doc.h1
    /\ doc.children # <<>>
    /\ deck_name = <<"T">>
    /\ doc.title # <<"T">>

----------------------------------------------------------------------------
(* What the claims about main speak of. *)

\* the number of cards in all subdecks
CountCards(sd) ==
    Cardinality({x \in (1..Len(sd)) \X (1..MaxNodes + 1) : x[2] <= Len(sd[x[1]].cards)})

(* C4: when the parsed document has no card in any subdeck, main stops with
   SystemExit and calls neither export_csv nor export_apkg; an export is only
   started after the card count was found to be greater than zero. *)
C4_NoCardsNoExport ==
    /\ [](exported # <<>> => CountCards(subdecks) > 0)
    /\ []((mpc = "done" /\ exported = <<>>) => raised # "none")
    /\ [][(mpc = "validate" /\ CountCards(subdecks) = 0) =>
             (raised' = "SystemExit" /\ exported' = <<>> /\ mpc' = "finally")]_vars
    /\ [][exported' # exported =>
             (mpc = "validate" /\ CountCards(subdecks) > 0)]_vars

\* C4 witness: main is over after a parse that found subdecks but no card
C4_Witness ==
    /\ mpc = "done"
    /\ subdecks # <<>>
    /\ CountCards(subdecks) = 0
    /\ raised = "SystemExit"
    /\ exported = <<>>

----------------------------------------------------------------------------
(* What the claims about parse_callout speak of. *)

\* the text nodes of a div as <<text, name of the parent>>
SourceLeaves(nodes) ==
    {<<nodes[i].text, "div">> : i \in {i \in 1..Len(nodes) : nodes[i].tag = "#text"}}
    \cup UNION {{<<nodes[i].kids[j].text, nodes[i].tag>> :
                    j \in {j \in 1..Len(nodes[i].kids) : nodes[i].kids[j].tag = "#text"}} :
                i \in 1..Len(nodes)}

\* the text nodes of a div before and after, as <<text before, text after,
\* name of the parent>>, for two divs of the same shape
LeafPairs(before, after) ==
    {<<before[i].text, after[i].text, "div">> :
        i \in {i \in 1..Len(before) : before[i].tag = "#text"}}
    \cup UNION {{<<before[i].kids[j].text, after[i].kids[j].text, before[i].tag>> :
                    j \in {j \in 1..Len(before[i].kids) : before[i].kids[j].tag = "#text"}} :
                i \in 1..Len(before)}

SameShape(before, after) ==
    /\ Len(before) = Len(after)
    /\ \A i \in 1..Len(before) :
          /\ before[i].tag = after[i].tag
          /\ Len(before[i].kids) = Len(after[i].kids)
          /\ \A j \in 1..Len(before[i].kids) : before[i].kids[j].tag = after[i].kids[j].tag

\* the words of the #word tokens of a text: what follows a "#" up to the end
\* of the run of word characters
TokenWords(s) ==
    {SubSeq(s, x[1] + 1, x[2]) :
        x \in {y \in (1..Len(s)) \X (1..Len(s)) :
                  /\ y[1] < y[2]
                  /\ s[y[1]] = "#"
                  /\ \A k \in (y[1] + 1)..y[2] : s[k] \in WordChars
                  /\ (y[2] = Len(s) \/ s[y[2] + 1] \notin WordChars)}}

HasToken(s) == \E i \in 1..(Len(s) - 1) : s[i] = "#" /\ s[i + 1] \in WordChars
HasSpaceRun(s) == \E i \in 1..(Len(s) - 1) : s[i] = " " /\ s[i + 1] = " "
HasWhitespaceRun(s) ==
    \E i \in 1..(Len(s) - 1) : s[i] \in Whitespace /\ s[i + 1] \in Whitespace
IsTrimmed(s) == s = <<>> \/ (s[1] \notin Whitespace /\ s[Len(s)] \notin Whitespace)
IsSubstring(t, s) ==
    \E i \in 0..(Len(s) - Len(t)) : SubSeq(s, i + 1, i + Len(t)) = t

\* s comes before t in the order of code points
ComesBefore(s, t) ==
    \E k \in 1..(Len(t)) :
        /\ k <= Len(s) + 1
        /\ \A m \in 1..(k - 1) : s[m] = t[m]
        /\ (k = Len(s) + 1 \/ CodePoint(s[k]) < CodePoint(t[k]))

\* the words of the tokens in the text nodes of the container that are not
\* inside script or style
ContentWords ==
    UNION {TokenWords(l[1]) : l \in {m \in SourceLeaves(callout.nodes) :
                                        m[2] \notin {"script", "style"}}}

\* parse_callout has returned a card
CardProduced == cpc = "done" /\ card.ok

\* the index of the front element in the container
FrontIndex == FirstElementIndex(callout.nodes)

\* the text pieces of the back
BackTexts == SelectSeq(card.back, LAMBDA p : p.k = "text")

(* C5: the tag list of every card holds only lowercase strings, has no
   duplicates, is sorted ascending, and holds exactly the lowercased words of
   the #word tokens in the text nodes of the container, front and back alike,
   those inside script or style left out; whatever keep_tags is. *)
C5_Tags ==
    CardProduced =>
        /\ \A i \in 1..Len(card.tags) : \A k \in 1..Len(card.tags[i]) :
              card.tags[i][k] \notin UpperChars
        /\ \A i \in 1..(Len(card.tags) - 1) : ComesBefore(card.tags[i], card.tags[i + 1])
        /\ \A i \in 1..Len(card.tags) : \A j \in 1..Len(card.tags) :
              i # j => card.tags[i] # card.tags[j]
        /\ Range(card.tags) = {LowerStr(w) : w \in ContentWords}

\* C5 witness: a card with two tags, where the tokens were found out of
\* order, one of them twice, once in upper case in the front and once in the
\* back
C5_Witness ==
    /\ CardProduced
    /\ card.tags = <<<<"a">>, <<"b">>>>
    /\ tags = <<<<"b">>, <<"b">>, <<"a">>>>
    /\ <<"B">> \in ContentWords
    /\ \E l \in SourceLeaves(callout.nodes) : l[2] = "div" /\ HasToken(l[1])

(* C6 as stated: with keep_tags false, no #word token is in the front text or
   in the text of the back of a card, and no run of two or more spaces. *)
C6_Original ==
    (CardProduced /\ ~keep_tags) =>
        /\ ~HasToken(card.front) /\ ~HasSpaceRun(card.front)
        /\ \A i \in 1..Len(BackTexts) :
              ~HasToken(BackTexts[i].v) /\ ~HasSpaceRun(BackTexts[i].v)

(* C6 amended: with keep_tags false, every text node of the container outside
   script and style that held a #word token has its tokens removed, its runs
   of whitespace collapsed to one space and its ends trimmed, and holds no
   token; a text node that held no token, or lies inside script or style, is
   left exactly as it was.  This holds of the container once extract_hashtags
   has run and of the back of every card produced. *)
C6_CleanedNodes ==
    LET cleaned(pairs) ==
            \A x \in pairs :
                IF x[3] \in {"script", "style"} \/ ~HasToken(x[1])
                THEN x[2] = x[1]
                ELSE ~HasToken(x[2]) /\ ~HasWhitespaceRun(x[2]) /\ IsTrimmed(x[2])
    IN ~keep_tags =>
          /\ cpc = "front" =>
                SameShape(callout.nodes, first_div)
                /\ cleaned(LeafPairs(callout.nodes, first_div))
          /\ CardProduced =>
                SameShape(RemoveAt(callout.nodes, FrontIndex), first_div)
                /\ cleaned(LeafPairs(RemoveAt(callout.nodes, FrontIndex), first_div))

\* C6 witness: a card made with keep_tags false whose back has a text node
\* that lost a token from between two words, and whose front kept a run of
\* spaces
C6_Witness ==
    /\ CardProduced
    /\ ~keep_tags
    /\ \E x \in LeafPairs(RemoveAt(callout.nodes, FrontIndex), first_div) :
          HasToken(x[1]) /\ x[2] = <<"a", " ", "a">> /\ Len(x[1]) = MaxLongLen

(* C7: with keep_tags true, extract_hashtags leaves every text node of the
   container as it was; the #word tokens are in the front and back text of
   the card as written, and the tags are collected all the same. *)
C7_KeptText ==
    keep_tags =>
        /\ cpc = "front" => first_div = callout.nodes
        /\ CardProduced =>
              /\ SameShape(RemoveAt(callout.nodes, FrontIndex), first_div)
              /\ \A x \in LeafPairs(RemoveAt(callout.nodes, FrontIndex), first_div) :
                    x[2] = x[1]
              /\ \A l \in SourceLeaves(<<callout.nodes[FrontIndex]>>) :
                    \A w \in TokenWords(l[1]) : IsSubstring(<<"#">> \o w, card.front)
              /\ \A l \in SourceLeaves(RemoveAt(callout.nodes, FrontIndex)) :
                    \A w \in TokenWords(l[1]) :
                        \E i \in 1..Len(BackTexts) : IsSubstring(<<"#">> \o w, BackTexts[i].v)
              /\ \A w \in ContentWords : LowerStr(w) \in Range(card.tags)

\* C7 witness: a card made with keep_tags true with a token in upper case in
\* its front and a token in its back
C7_Witness ==
    /\ CardProduced
    /\ keep_tags
    /\ IsSubstring(<<"#", "B">>, card.front)
    /\ \E i \in 1..Len(BackTexts) : IsSubstring(<<"#", "a">>, BackTexts[i].v)
    /\ card.tags = <<<<"a">>, <<"b">>>>

\* the img elements of the back in the source, in document order
SourceImgs == ImgsOf(RemoveAt(callout.nodes, FrontIndex))

\* the img pieces of the back of the card, in document order
BackImgs == SelectSeq(card.back, LAMBDA p : p.k = "img")

\* the last path segment of the percent-decoded source
FileNameOf(src) ==
    LET d == Unquote(src)
        slashes == {i \in 1..Len(d) : d[i] = "/"}
        cut == IF slashes = {} THEN 0 ELSE CHOOSE i \in slashes : \A j \in slashes : j <= i
    IN SubSeq(d, cut + 1, Len(d))

\* assetsDir/fileName
AssetPath(src) == PathJoin(assets_dir, FileNameOf(src))

\* the markup without its img pieces
WithoutImgs(html) == SelectSeq(html, LAMBDA p : p.k # "img")

\* the card the same callout gives when no file is missing
CardWithAllFiles ==
    parse_callout(callout, assets_dir,
                  fs \cup {AssetPath(SourceImgs[i].src) : i \in 1..Len(SourceImgs)},
                  keep_tags)

(* C8: for every image of the back whose decoded file name is not in the
   assets directory, the src in the back of the card is the src of the source
   markup and the media list has no entry for it; the card is produced all the
   same, with the front, the tags, the rest of the back and the other images
   that are found as they are when no file is missing. *)
C8_MissingImage ==
    cpc = "done" =>
        /\ card.ok = CardWithAllFiles.ok
        /\ card.ok =>
              /\ Len(BackImgs) = Len(SourceImgs)
              /\ \A i \in 1..Len(SourceImgs) :
                    AssetPath(SourceImgs[i].src) \notin fs =>
                        /\ BackImgs[i].v = SourceImgs[i].src
                        /\ AssetPath(SourceImgs[i].src) \notin Range(card.media_files)
              /\ \A i \in 1..Len(SourceImgs) :
                    AssetPath(SourceImgs[i].src) \in fs =>
                        BackImgs[i].v = SelectSeq(CardWithAllFiles.back,
                                                  LAMBDA p : p.k = "img")[i].v
              /\ card.front = CardWithAllFiles.front
              /\ card.tags = CardWithAllFiles.tags
              /\ WithoutImgs(card.back) = WithoutImgs(CardWithAllFiles.back)

\* C8 witness: a card with a tag whose back has an image that is missing, with
\* a src that is not a bare file name, and an image that is found
C8_Witness ==
    /\ CardProduced
    /\ card.tags # <<>>
    /\ \E i \in 1..Len(SourceImgs) :
          /\ AssetPath(SourceImgs[i].src) \notin fs
          /\ FileNameOf(SourceImgs[i].src) \notin {<<>>, SourceImgs[i].src}
    /\ \E j \in 1..Len(SourceImgs) :
          SourceImgs[j].src # <<>> /\ AssetPath(SourceImgs[j].src) \in fs

(* C9: for every card, an image of the back that has a source has it
   rewritten to the last path segment of the percent-decoded source when
   assetsDir/fileName exists and keeps its source when not; the media list is
   assetsDir/fileName for the images that were rewritten, one entry each, in
   their document order, and nothing else. *)
C9_RewrittenIffExists ==
    CardProduced =>
        /\ Len(BackImgs) = Len(SourceImgs)
        /\ \A i \in 1..Len(SourceImgs) :
              SourceImgs[i].src # <<>> =>
                  BackImgs[i].v = IF AssetPath(SourceImgs[i].src) \in fs
                                  THEN FileNameOf(SourceImgs[i].src)
                                  ELSE SourceImgs[i].src
        /\ LET rewritten == SelectSeq(SourceImgs,
                               LAMBDA n : n.src # <<>> /\ AssetPath(n.src) \in fs)
           IN card.media_files = [i \in 1..Len(rewritten) |-> AssetPath(rewritten[i].src)]

\* C9 witness: a card whose back has two images with different files, both
\* found, one of them after a source with a directory and a percent escape
C9_Witness ==
    /\ CardProduced
    /\ Len(card.media_files) = 2
    /\ card.media_files[1] # card.media_files[2]
    /\ assets_dir # <<>>
    /\ \E i \in 1..Len(SourceImgs) :
          /\ BackImgs[i].v = <<"a">>
          /\ SourceImgs[i].src = <<"a", "/", "%61">>

----------------------------------------------------------------------------
(* Documents without callouts. *)

\* no figure of class callout is in the document, in the page body or in a
\* details
NoCalloutAnywhere ==
    \A i \in 1..Len(doc.children) :
        /\ doc.children[i].tag = "figure" => ~doc.children[i].callout
        /\ doc.children[i].tag = "details" =>
              \A j \in 1..Len(doc.children[i].inner) :
                  doc.children[i].inner[j].tag = "figure" =>
                      ~doc.children[i].inner[j].callout

\* the labels of the details of the page body that have a summary
SectionLabels ==
    IF doc.article /\ doc.page_body
    THEN {Strip(doc.children[i].label) :
             i \in {m \in 1..Len(doc.children) :
                       doc.children[m].tag = "details" /\ doc.children[m].summary}}
    ELSE {}

(* C11 as stated: for a document without a callout anywhere,
   parse_html_file returns a subdecks map with no keys. *)
C11_Original ==
    (wpc = "done" /\ NoCalloutAnywhere) => subdecks = <<>>

(* C11 amended: for a document without a callout anywhere, parse_html_file
   returns a subdecks map with no card in it; its keys are the labels of the
   details of the page body that have a summary, each with an empty list, so
   the map has no keys only when there is no such details. *)
C11_NoCards ==
    (wpc = "done" /\ NoCalloutAnywhere) =>
        /\ \A p \in 1..Len(subdecks) : subdecks[p].cards = <<>>
        /\ {subdecks[p].name : p \in 1..Len(subdecks)} = SectionLabels
        /\ Cardinality(SectionLabels) = Len(subdecks)

\* C11 witness: a document without callouts, with figures that are no callouts
\* in the page body and in a details, returns two keys
C11_Witness ==
    /\ wpc = "done"
    /\ NoCalloutAnywhere
    /\ Len(subdecks) = 2
    /\ \E i \in 1..Len(doc.children) : doc.children[i].tag = "figure"
    /\ \E i \in 1..Len(doc.children) :
          doc.children[i].tag = "details" /\ doc.children[i].inner # <<>>

----------------------------------------------------------------------------
(* Malformed pieces of the document. *)

\* the callouts the walk comes to: <<i, 0>> for child i of the page body,
\* <<i, j>> for child j of the indented region of a details with a summary
WalkedCallouts ==
    {<<i, 0>> : i \in {m \in 1..Len(doc.children) : IsTopCallout(m)}}
    \cup UNION {{<<i, j>> : j \in {n \in 1..Len(doc.children[i].inner) :
                                      /\ doc.children[i].inner[n].tag = "figure"
                                      /\ doc.children[i].inner[n].callout}} :
                i \in {m \in 1..Len(doc.children) :
                          IsSection(m) /\ doc.children[m].indented}}

CalloutAt(pos) ==
    IF pos[2] = 0 THEN doc.children[pos[1]] ELSE doc.children[pos[1]].inner[pos[2]]

\* the key the card of a callout belongs under
SubdeckAt(pos) ==
    IF pos[2] = 0 THEN DEFAULT_SUBDECK_NAME ELSE Strip(doc.children[pos[1]].label)

\* the div has no element child, or the text of the first one is empty once
\* trimmed
NoFront(c) ==
    LET elems == {i \in 1..Len(c.nodes) : c.nodes[i].tag # "#text"}
    IN \/ elems = {}
       \/ LET first == CHOOSE i \in elems : \A m \in elems : i <= m
          IN \A k \in 1..Len(c.nodes[first].kids) :
                c.nodes[first].kids[k].tag = "#text" =>
                    \A n \in 1..Len(c.nodes[first].kids[k].text) :
                        c.nodes[first].kids[k].text[n] \in Whitespace

\* a details without a summary or without an indented region
IsMalformedSection(i) ==
    doc.children[i].tag = "details"
    /\ (~doc.children[i].summary \/ ~doc.children[i].indented)

AllCards == UNION {Range(subdecks[p].cards) : p \in 1..Len(subdecks)}

\* what the walk has made of the document when the callouts in malformed are
\* the ones without a card
SkipsOnly(malformed) ==
    /\ \A c \in AllCards : c.front # <<>>
    /\ \A pos \in WalkedCallouts :
          IF pos \in malformed
          THEN /\ ~parse_callout(CalloutAt(pos), assets_dir, fs, keep_tags).ok
               /\ \A c \in AllCards : PosOf(c) # pos
          ELSE /\ HasKey(subdecks, SubdeckAt(pos))
               /\ \E c \in Range(CardsOf(subdecks, SubdeckAt(pos))) : PosOf(c) = pos
               /\ \A p \in 1..Len(subdecks) :
                     Cardinality({k \in 1..Len(subdecks[p].cards) :
                                     PosOf(subdecks[p].cards[k]) = pos})
                       = IF subdecks[p].name = SubdeckAt(pos) THEN 1 ELSE 0
    /\ \A i \in 1..Len(doc.children) :
          IsMalformedSection(i) => \A c \in AllCards : PosOf(c)[1] # i
    /\ idx = Len(TopLevelElements(doc))

(* C12 as stated: parse_callout gives no card for a callout with no div
   directly inside it, with a div without an element child, or with a first
   element whose trimmed text is empty; a details without a label or without
   an indented region gives no card; every other callout the walk comes to
   has its card in its subdeck, and every card has a non-empty front. *)
C12_Original ==
    (wpc = "done" /\ doc.article /\ doc.page_body) =>
        SkipsOnly({pos \in WalkedCallouts :
                      ~CalloutAt(pos).direct \/ NoFront(CalloutAt(pos))})

(* C12 amended: as stated, but the callout without a card is the one with no
   div anywhere inside it: the container is the first div found inside the
   callout at any depth, so a callout whose only div lies inside another
   element still gives its card. *)
C12_MalformedSkipped ==
    (wpc = "done" /\ doc.article /\ doc.page_body) =>
        SkipsOnly({pos \in WalkedCallouts :
                      ~CalloutAt(pos).div \/ NoFront(CalloutAt(pos))})

\* C12 witness: a callout with text only between two well-formed callouts of the
\* indented region of a details, whose cards are both under the label
C12_Witness ==
    /\ wpc = "done"
    /\ Len(doc.children) = 2
    /\ doc.children[1].tag = "details"
    /\ Len(doc.children[1].inner) = 3
    /\ doc.children[1].inner[2].div
    /\ \A i \in 1..Len(doc.children[1].inner[2].nodes) :
          doc.children[1].inner[2].nodes[i].tag = "#text"
    /\ doc.children[1].inner[2].nodes # <<>>
    /\ Len(CardsOf(subdecks, <<"A">>)) = 2
    /\ CardsOf(subdecks, <<"A">>)[2].front = FrontOf(1, 3)

----------------------------------------------------------------------------
(* Front and back of a card. *)

\* a text without the whitespace at its ends
Trimmed(s) ==
    LET inked == {i \in 1..Len(s) : s[i] \notin Whitespace}
    IN IF inked = {} THEN <<>>
       ELSE SubSeq(s, CHOOSE i \in inked : \A m \in inked : i <= m,
                      CHOOSE i \in inked : \A m \in inked : m <= i)

\* the container once extract_hashtags has run, its front element, and what
\* is left of it without that element
ExtractedNodes == extract_hashtags(callout.nodes, keep_tags).nodes
FrontElement == ExtractedNodes[FrontIndex]
Remaining ==
    [i \in 1..(Len(ExtractedNodes) - 1) |->
        ExtractedNodes[IF i < FrontIndex THEN i ELSE i + 1]]

\* the texts of the text nodes of the front element, in order
FrontTexts ==
    LET txt == SelectSeq(FrontElement.kids, LAMBDA k : k.tag = "#text")
    IN [i \in 1..Len(txt) |-> txt[i].text]

\* markup read as a string: every tag and img is one symbol, every character
\* of text is one
Symbols(pieces) ==
    Concat([i \in 1..Len(pieces) |->
        IF pieces[i].k = "text"
        THEN [n \in 1..Len(pieces[i].v) |-> <<"char", pieces[i].v[n]>>]
        ELSE <<<<pieces[i].k, pieces[i].v>>>>])

\* the string of a text node or an img, and of the children of a div
LeafSymbols(n) ==
    IF n.tag = "#text" THEN [i \in 1..Len(n.text) |-> <<"char", n.text[i]>>]
    ELSE <<<<"img", n.src>>>>
ContentSymbols(nodes) ==
    Concat([i \in 1..Len(nodes) |->
        IF nodes[i].tag \in {"#text", "img"} THEN LeafSymbols(nodes[i])
        ELSE <<<<"open", <<nodes[i].tag>>>>>>
             \o Concat([j \in 1..Len(nodes[i].kids) |-> LeafSymbols(nodes[i].kids[j])])
             \o <<<<"close", <<nodes[i].tag>>>>>>])

\* what is left in the container is the source without the front element,
\* text for text, with the src of the images as the card has them
RemainingIsBack ==
    /\ SameShape(Remaining, first_div)
    /\ \A x \in LeafPairs(Remaining, first_div) : x[2] = x[1]

(* C13 as stated: the front of a card is the trimmed flattened text of the
   first element child of the container, and the back is the markup of what
   remains in the container once that element is detached, and nothing else:
   <p>Answer</p> for <div><p>Q1 #math</p><p>Answer</p></div>. *)
C13_Original ==
    CardProduced =>
        /\ card.front = Trimmed(Concat(FrontTexts))
        /\ RemainingIsBack
        /\ Symbols(card.back) = ContentSymbols(first_div)

(* C13 amended: the front of a card is the text of the first element child of
   the container, each of its text nodes trimmed and the results joined with
   nothing between them; the back is the markup of the container itself, its
   own opening and closing tag included, as it is once that element is
   detached: <div><p>Answer</p></div>.  The front element is not in the back,
   and nothing but the remaining content is between the container's tags. *)
C13_FrontAndBack ==
    CardProduced =>
        /\ card.front = Concat([i \in 1..Len(FrontTexts) |-> Trimmed(FrontTexts[i])])
        /\ RemainingIsBack
        /\ Symbols(card.back) = <<<<"open", <<"div">>>>>>
                                 \o ContentSymbols(first_div)
                                 \o <<<<"close", <<"div">>>>>>

\* C13 witness: a card whose front comes from two text nodes with whitespace
\* at their ends, and whose back holds a text node and a rewritten image
C13_Witness ==
    /\ CardProduced
    /\ card.front = <<"q", "r">>
    /\ Len(FrontTexts) = 2
    /\ Len(card.media_files) = 1
    /\ \E i \in 1..Len(card.back) : card.back[i].k = "text"

----------------------------------------------------------------------------
(* The temporary directory of main. *)

(* C14: a temporary directory is made only for a URL or a ZIP input; once
   made it is there until the finally block and gone when main returns or
   raises, whichever way main ends; for an HTML file none is made and none is
   removed. *)
C14_TempDirRemoved ==
    /\ [](mpc = "done" => ~temp_exists)
    /\ []((temp_dir # "none" /\ mpc # "done") => temp_exists)
    /\ [](args.file = "html" => (temp_dir = "none" /\ ~temp_exists))
    /\ [][temp_exists' # temp_exists =>
             \/ /\ ~temp_exists /\ mpc = "start" /\ args.file \in {"url", "zip"}
                /\ temp_dir' # "none"
             \/ /\ temp_exists /\ mpc = "finally" /\ mpc' = "done"]_vars
    /\ [][temp_dir' # temp_dir => (temp_dir = "none" /\ temp_exists')]_vars

\* C14 witness: main has ended with SystemExit over the output name, after a
\* ZIP input that gave cards, and the directory it made is gone
C14_Witness ==
    /\ mpc = "done"
    /\ args.file = "zip"
    /\ args.output = "other"
    /\ temp_dir # "none"
    /\ ~temp_exists
    /\ raised = "SystemExit"
    /\ CountCards(subdecks) > 0
    /\ exported = <<>>

====
